---- MODULE Spec2Model ----
(***************************************************************************)
(* Model of the Python node API of dora (apis/python/node/src/lib.rs):     *)
(* the Node handle with its active event source (Events::Dora or           *)
(* Events::Merged), merge_external_events, the blocking recv, and the      *)
(* send_output path.                                                       *)
(*                                                                         *)
(* Streams are modelled as terms:                                          *)
(*   [op |-> "native"]                       the node's EventStream        *)
(*   [op |-> "empty"]                        futures::stream::empty()      *)
(*   [op |-> "mergeNative", ext |-> a]       EventStream::merge_external   *)
(*   [op |-> "merge", inner |-> s, ext |-> a]  merge_external of a stream  *)
(*   [op |-> "map", inner |-> s]             the flattening .map(..)       *)
(* Source 0 is the native event stream, source a in Adapters is the        *)
(* stream wrapped by ExternalEventStream number a.                         *)
(***************************************************************************)
EXTENDS Integers, Sequences, FiniteSets, TLC

\* Number of ExternalEventStream objects the caller holds.
NumAdapters == 2
\* Total number of items all producers together may produce.
MaxItems == 3
\* The same, in the specification that adds the send path.
MaxPending == 1
\* Number of messages the channel may hold.
MaxSends == 1
\* Number of end-of-stream results recv may return on one active source.
MaxNone == 2
\* Total number of items produced in the specification with error events.
MaxEvents == 2

Native == 0
Adapters == 1..NumAdapters
Sources == {Native} \cup Adapters

VARIABLES
    events,      \* Node.events: [kind, stream]
    adapter,     \* ExternalEventStream.0 per adapter: TRUE = Some(stream), FALSE = None
    produced,    \* per source: number of items the producer has made ready so far
    ready,       \* per source: items ready in the stream, not yet taken by a poll
    closed,      \* per source: the producer has ended (all senders dropped)
    received,    \* the PyEvents returned by recv, in order
    taken,       \* the raw items removed from the streams by recv, in order
    nones,       \* how often recv has returned None on the current active source
    misuse,      \* some merge_external_events call failed with "stream already taken"
    channel,     \* Node.node: the messages enqueued on the channel to the dataflow
    last         \* eyre::Result of the last merge_external_events / send_output call

vars == <<events, adapter, produced, ready, closed, received, taken, nones, misuse,
          channel, last>>
recvVars == <<events, adapter, produced, ready, closed, received, taken, nones, misuse>>

----------------------------------------------------------------------------
(* Items *)

\* The k-th item of source s.
Item(s, k) == [src |-> s, n |-> k]

RECURSIVE SumOver(_, _)
SumOver(f, S) ==
    IF S = {} THEN 0
    ELSE LET x == CHOOSE y \in S : TRUE IN f[x] + SumOver(f, S \ {x})

TotalProduced == SumOver(produced, Sources)
TotalReady == SumOver([s \in Sources |-> Len(ready[s])], Sources)

\* MergedEvent<T>
Dora(e) == [tag |-> "Dora", val |-> e]
External(x) == [tag |-> "External", val |-> x]

\* Either<A, B> of dora_node_api::merged and Either<A, A>::flatten
First(x) == [either |-> "First", v |-> x]
Second(x) == [either |-> "Second", v |-> x]
flatten(e) == e.v

\* PyEvent::from(MergedEvent<PyObject>) and PyEvent::from(Event)
PyEventFromMerged(m) == [event |-> m]
PyEventFromEvent(e) == PyEventFromMerged(Dora(e))

----------------------------------------------------------------------------
(* Streams *)

NativeStream == [op |-> "native"]
EmptyStream == [op |-> "empty"]

\* Events::Dora(events) of Node::new
EventsDora == [kind |-> "Dora", stream |-> NativeStream]
\* Events::Merged(Box::new(futures::stream::empty())), the dummy of the swap
EventsDummy == [kind |-> "Merged", stream |-> EmptyStream]

\* impl MergeExternal for EventStream: (dora, external).merge()
EventStreamMergeExternal(a) == [op |-> "mergeNative", ext |-> a]
\* impl MergeExternal for S: Stream<Item = MergedEvent<E>>: (first, second).merge()
StreamMergeExternal(s, a) == [op |-> "merge", inner |-> s, ext |-> a]

\* A closure that passes External items on without flattening them.
FlattenMap_KeepsEither(m) ==
    IF m.tag = "Dora" THEN Dora(m.val) ELSE External(m.val)

\* A closure that rebuilds every item as an External one.
FlattenMap_Retags(m) ==
    IF m.tag = "Dora" THEN External(m.val) ELSE External(flatten(m.val))

\* The closure of the .map in Events::merge_external
FlattenMap(m) ==
    IF m.tag = "Dora" THEN Dora(m.val) ELSE External(flatten(m.val))

\* A merge_external whose Merged branch merges the new stream into a fresh empty
\* stream instead of into self.
merge_external_DropsSelf(ev, a) ==
    IF ev.kind = "Dora"
    THEN EventStreamMergeExternal(a)
    ELSE [op |-> "map", inner |-> StreamMergeExternal(EmptyStream, a)]

\* impl MergeExternal for Events: merge_external(self, external_events)
merge_external(ev, a) ==
    IF ev.kind = "Dora"
    THEN EventStreamMergeExternal(a)
    ELSE [op |-> "map", inner |-> StreamMergeExternal(ev.stream, a)]

\* The sources a stream polls.
RECURSIVE SourcesOf(_)
SourcesOf(s) ==
    CASE s.op = "native" -> {Native}
      [] s.op = "empty" -> {}
      [] s.op = "mergeNative" -> {Native, s.ext}
      [] s.op = "merge" -> SourcesOf(s.inner) \cup {s.ext}
      [] s.op = "map" -> SourcesOf(s.inner)

\* What one poll of the raw stream of source s can yield.
PollSource(s) ==
    IF ready[s] # <<>> THEN {[ev |-> Head(ready[s]), src |-> s]} ELSE {}
DoneSource(s) == ready[s] = <<>> /\ closed[s]

\* The items one poll_next of a stream can return as Ready(Some(item)): a merge
\* polls its two streams and returns the item of whichever is ready.
RECURSIVE Poll(_)
Poll(s) ==
    CASE s.op = "native" -> PollSource(Native)
      [] s.op = "empty" -> {}
      [] s.op = "mergeNative" ->
            {[ev |-> Dora(o.ev), src |-> o.src] : o \in PollSource(Native)}
            \cup {[ev |-> External(o.ev), src |-> o.src] : o \in PollSource(s.ext)}
      [] s.op = "merge" ->
            {[ev |-> IF o.ev.tag = "Dora" THEN Dora(o.ev.val)
                     ELSE External(First(o.ev.val)),
              src |-> o.src] : o \in Poll(s.inner)}
            \cup {[ev |-> External(Second(o.ev)), src |-> o.src] : o \in PollSource(s.ext)}
      [] s.op = "map" ->
            {[ev |-> FlattenMap(o.ev), src |-> o.src] : o \in Poll(s.inner)}

\* poll_next returns Ready(None): every stream under s has ended.
RECURSIVE Done(_)
Done(s) ==
    CASE s.op = "native" -> DoneSource(Native)
      [] s.op = "empty" -> TRUE
      [] s.op = "mergeNative" -> DoneSource(Native) /\ DoneSource(s.ext)
      [] s.op = "merge" -> Done(s.inner) /\ DoneSource(s.ext)
      [] s.op = "map" -> Done(s.inner)

----------------------------------------------------------------------------
(* Environment: the producers *)

Init ==
    /\ events = EventsDora
    /\ adapter = [a \in Adapters |-> TRUE]
    /\ produced = [s \in Sources |-> 0]
    /\ ready = [s \in Sources |-> <<>>]
    /\ closed = [s \in Sources |-> FALSE]
    /\ received = <<>>
    /\ taken = <<>>
    /\ nones = 0
    /\ misuse = FALSE
    /\ channel = <<>>
    /\ last = [op |-> "new", res |-> "ok"]

\* The producer of source s makes its next item ready.
ProduceUpTo(s, max) ==
    /\ ~closed[s]
    /\ TotalProduced < max
    /\ produced' = [produced EXCEPT ![s] = @ + 1]
    /\ ready' = [ready EXCEPT ![s] = Append(@, Item(s, produced[s] + 1))]
    /\ UNCHANGED <<events, adapter, closed, received, taken, nones, misuse, channel, last>>

Produce(s) == ProduceUpTo(s, MaxItems)

\* The kinds of Event the native stream yields: an input, or Event::Error.
EventKinds == {"INPUT", "ERROR"}
\* The k-th event of the native stream, of the given kind.
Event(k, kind) == [src |-> Native, n |-> k, kind |-> kind]

\* The dataflow runtime makes the next native event, of either kind, ready.
ProduceEvent(kind) ==
    /\ ~closed[Native]
    /\ TotalProduced < MaxEvents
    /\ produced' = [produced EXCEPT ![Native] = @ + 1]
    /\ ready' = [ready EXCEPT ![Native] = Append(@, Event(produced[Native] + 1, kind))]
    /\ UNCHANGED <<events, adapter, closed, received, taken, nones, misuse, channel, last>>

\* The producer of source s ends.
Close(s) ==
    /\ ~closed[s]
    /\ closed' = [closed EXCEPT ![s] = TRUE]
    /\ UNCHANGED <<events, adapter, produced, ready, received, taken, nones, misuse,
                   channel, last>>

----------------------------------------------------------------------------
(* Node::merge_external_events *)

\* A take that leaves the stream in the adapter.
Take_LeavesStream(opt) == <<opt, opt>>

\* Option::take on ExternalEventStream.0: <<value taken, what is left>>
Take(opt) == <<opt, FALSE>>

\* A merge_external_events that merges the adapter's stream into self.events
\* after the swap, which is the dummy, instead of into the source swapped out.
MergeExternalEvents_KeepsDummy(a) ==
    LET got == Take(adapter[a])
    IN  /\ adapter' = [adapter EXCEPT ![a] = got[2]]
        /\ IF got[1]
           THEN /\ events' = [kind |-> "Merged", stream |-> merge_external(EventsDummy, a)]
                /\ last' = [op |-> "merge", ext |-> a, had |-> adapter[a], res |-> "ok"]
                /\ UNCHANGED misuse
           ELSE /\ events' = EventsDummy
                /\ last' = [op |-> "merge", ext |-> a, had |-> adapter[a],
                             res |-> "stream already taken"]
                /\ misuse' = TRUE
        /\ nones' = 0
        /\ UNCHANGED <<produced, ready, closed, received, taken, channel>>

MergeExternalEvents(a) ==
    LET old == events                  \* std::mem::replace(&mut self.events, dummy)
        got == Take(adapter[a])
    IN  /\ adapter' = [adapter EXCEPT ![a] = got[2]]
        /\ IF got[1]
           THEN /\ events' = [kind |-> "Merged", stream |-> merge_external(old, a)]
                /\ last' = [op |-> "merge", ext |-> a, had |-> adapter[a], res |-> "ok"]
                /\ UNCHANGED misuse
           ELSE \* the ? returns; self.events still holds the dummy
                /\ events' = EventsDummy
                /\ last' = [op |-> "merge", ext |-> a, had |-> adapter[a],
                             res |-> "stream already taken"]
                /\ misuse' = TRUE
        /\ nones' = 0
        /\ UNCHANGED <<produced, ready, closed, received, taken, channel>>

----------------------------------------------------------------------------
(* Events::recv, called by Node::next / Node::__next__ *)

\* A next that also takes the item behind the one it returns.
Pop_Prefetches(q) == IF Len(q) > 1 THEN Tail(Tail(q)) ELSE Tail(q)

\* StreamExt::next / EventStream::recv take the item polled off its stream.
Pop(q) == Tail(q)

\* A recv that returns None instead of blocking when nothing is ready.
RecvOutcomes_ReturnsEarly(ev) ==
    IF ev.kind = "Dora"
    THEN IF ready[Native] # <<>>
         THEN {[res |-> "item", py |-> PyEventFromEvent(Head(ready[Native])), src |-> Native]}
         ELSE {[res |-> "None"]}
    ELSE IF Poll(ev.stream) # {}
         THEN {[res |-> "item", py |-> PyEventFromMerged(o.ev), src |-> o.src] :
                  o \in Poll(ev.stream)}
         ELSE {[res |-> "None"]}

\* A recv that ends the stream when the event it polled is Event::Error.
RecvOutcomes_ErrorEndsStream(ev) ==
    IF ev.kind = "Dora"
    THEN IF ready[Native] # <<>>
         THEN IF Head(ready[Native]).kind = "ERROR"
              THEN {[res |-> "None"]}
              ELSE {[res |-> "item", py |-> PyEventFromEvent(Head(ready[Native])),
                     src |-> Native]}
         ELSE IF closed[Native] THEN {[res |-> "None"]} ELSE {}
    ELSE IF Poll(ev.stream) # {}
         THEN {IF o.ev.tag = "Dora" /\ o.ev.val.kind = "ERROR"
               THEN [res |-> "None"]
               ELSE [res |-> "item", py |-> PyEventFromMerged(o.ev), src |-> o.src] :
                  o \in Poll(ev.stream)}
         ELSE IF Done(ev.stream) THEN {[res |-> "None"]} ELSE {}

\* A recv on a merged source that polls the native stream first and the
\* external streams only when the native stream has nothing ready.
RecvOutcomes_NativeFirst(ev) ==
    IF ev.kind = "Dora"
    THEN IF ready[Native] # <<>>
         THEN {[res |-> "item", py |-> PyEventFromEvent(Head(ready[Native])), src |-> Native]}
         ELSE IF closed[Native] THEN {[res |-> "None"]} ELSE {}
    ELSE IF Poll(ev.stream) # {}
         THEN {[res |-> "item", py |-> PyEventFromMerged(o.ev), src |-> o.src] :
                  o \in {x \in Poll(ev.stream) :
                            (\E y \in Poll(ev.stream) : y.src = Native) => x.src = Native}}
         ELSE IF Done(ev.stream) THEN {[res |-> "None"]} ELSE {}

\* What recv can return now: items (with the source polled), or "None".
\* The empty set: recv blocks.
RecvOutcomes(ev) ==
    IF ev.kind = "Dora"
    THEN IF ready[Native] # <<>>
         THEN {[res |-> "item", py |-> PyEventFromEvent(Head(ready[Native])), src |-> Native]}
         ELSE IF closed[Native] THEN {[res |-> "None"]} ELSE {}
    ELSE IF Poll(ev.stream) # {}
         THEN {[res |-> "item", py |-> PyEventFromMerged(o.ev), src |-> o.src] :
                  o \in Poll(ev.stream)}
         ELSE IF Done(ev.stream) THEN {[res |-> "None"]} ELSE {}

Recv ==
    \E o \in RecvOutcomes(events) :
        /\ IF o.res = "item"
           THEN /\ received' = Append(received, o.py)
                /\ taken' = Append(taken, Head(ready[o.src]))
                /\ ready' = [ready EXCEPT ![o.src] = Pop(@)]
                /\ UNCHANGED nones
           ELSE /\ nones < MaxNone
                /\ nones' = nones + 1
                /\ UNCHANGED <<received, taken, ready>>
        /\ UNCHANGED <<events, adapter, produced, closed, misuse, channel, last>>

\* The producer of source s supplies items without end: it makes its next item
\* ready as soon as the one before it has been taken. Item numbers alternate.
ProduceNext(s) ==
    /\ ready[s] = <<>>
    /\ produced' = [produced EXCEPT ![s] = 1 - @]
    /\ ready' = [ready EXCEPT ![s] = <<Item(s, produced[s] + 1)>>]
    /\ UNCHANGED <<events, adapter, closed, received, taken, nones, misuse, channel, last>>

\* A recv call that returns the oldest ready item of source s; only the event
\* returned last is remembered.
RecvFrom(s) ==
    \E o \in RecvOutcomes(events) :
        /\ o.res = "item"
        /\ o.src = s
        /\ received' = <<o.py>>
        /\ taken' = <<Head(ready[s])>>
        /\ ready' = [ready EXCEPT ![s] = Pop(@)]
        /\ UNCHANGED <<events, adapter, produced, closed, nones, misuse, channel, last>>

\* A recv call that returns None.
RecvNone ==
    /\ [res |-> "None"] \in RecvOutcomes(events)
    /\ nones < MaxNone
    /\ nones' = nones + 1
    /\ UNCHANGED <<events, adapter, produced, ready, closed, received, taken, misuse,
                   channel, last>>

----------------------------------------------------------------------------
(* Node::send_output and Node::send_output_slice *)

\* The data objects a caller passes: bytes, an Arrow array, or something else.
PyObjects ==
    {[kind |-> "bytes", bytes |-> <<7>>],
     [kind |-> "arrow", type |-> "Float32", bytes |-> <<1, 2, 3, 4>>],
     [kind |-> "other"]}

\* The metadata arguments: None, a dict that converts, a dict that does not.
NoMetadata == [kind |-> "None"]
Metadatas ==
    {NoMetadata,
     [kind |-> "dict", valid |-> TRUE, map |-> {<<"unit", "celsius">>}],
     [kind |-> "dict", valid |-> FALSE, map |-> {<<"unit", "?">>}]}

\* The outputs the node declares, and the identifiers a caller passes.
DeclaredOutputs == {"temperature"}
OutputIds == DeclaredOutputs \cup {"undeclared"}

\* Result<T, E> of a conversion, and eyre::Result<()> of a send together with
\* the messages the call enqueued on the channel.
Ok(v) == [ok |-> TRUE, val |-> v]
Err(e) == [ok |-> FALSE, err |-> e]
Sent(msgs) == [ok |-> TRUE, err |-> "", sent |-> msgs]
Failed(e, msgs) == [ok |-> FALSE, err |-> e, sent |-> msgs]

\* process_python_type(&data, py)
process_python_type(data) ==
    CASE data.kind = "bytes" -> Ok("UInt8")
      [] data.kind = "arrow" -> Ok(data.type)
      [] OTHER -> Err("could not get type")

\* The byte slice process_python_output hands to its callback.
process_python_output(data) == data.bytes

\* pydict_to_metadata(metadata): an absent argument is the empty mapping.
pydict_to_metadata(metadata) ==
    CASE metadata.kind = "None" -> Ok({})
      [] metadata.valid -> Ok(metadata.map)
      [] OTHER -> Err("invalid metadata")

\* A writer callback that leaves the allocated buffer as it got it.
copy_from_slice_Skipped(out, data) == out

\* out.copy_from_slice(data): the lengths are equal.
copy_from_slice(out, data) == [i \in 1..Len(out) |-> data[i]]

\* DoraNode::send_typed_output(output_id, data_type, parameters, len, writer):
\* the message enqueued, or the channel's error.
send_typed_output(output_id, data_type, parameters, len, data) ==
    IF output_id \notin DeclaredOutputs
    THEN Failed("unknown output", <<>>)
    ELSE LET sample == [i \in 1..len |-> 0]       \* the buffer the channel allocates
         IN  Sent(<<[id |-> output_id, type |-> data_type, metadata |-> parameters,
                    data |-> copy_from_slice(sample, data)]>>)

\* A send_output_slice that sends with the default parameters before it
\* converts the metadata, and reports the conversion's error afterwards.
send_output_slice_SendsFirst(output_id, len, data_type, data, metadata) ==
    LET r == send_typed_output(output_id, data_type, {}, len, data)
        parameters == pydict_to_metadata(metadata)
    IN  IF ~parameters.ok THEN Failed(parameters.err, r.sent)
        ELSE IF r.ok THEN r ELSE Failed("failed to send output", r.sent)

\* Node::send_output_slice(output_id, len, data_type, data, metadata)
send_output_slice(output_id, len, data_type, data, metadata) ==
    LET parameters == pydict_to_metadata(metadata)
    IN  IF ~parameters.ok THEN Failed(parameters.err, <<>>)
        ELSE LET r == send_typed_output(output_id, data_type, parameters.val, len, data)
             IN  IF r.ok THEN r ELSE Failed("failed to send output", r.sent)

\* Node::send_output(output_id, data, metadata)
send_output(output_id, data, metadata) ==
    LET data_type == process_python_type(data)
    IN  IF ~data_type.ok THEN Failed(data_type.err, <<>>)
        ELSE LET slice == process_python_output(data)
             IN  send_output_slice(output_id, Len(slice), data_type.val, slice, metadata)

SendOutput(output_id, data, metadata) ==
    LET r == send_output(output_id, data, metadata)
    IN  /\ Len(channel) < MaxSends
        /\ channel' = channel \o r.sent
        /\ last' = [op |-> "send", res |-> IF r.ok THEN "ok" ELSE r.err]
        /\ UNCHANGED recvVars

----------------------------------------------------------------------------

Next ==
    \/ \E s \in Sources : Produce(s)
    \/ \E s \in Sources : Close(s)
    \/ \E a \in Adapters : MergeExternalEvents(a)
    \/ Recv

\* The receive path: producers, merge_external_events, recv.
Spec == Init /\ [][Next]_vars

NextSend ==
    \/ \E s \in Sources : ProduceUpTo(s, MaxPending)
    \/ \E a \in Adapters : MergeExternalEvents(a)
    \/ Recv
    \/ \E i \in OutputIds, d \in PyObjects, m \in Metadatas : SendOutput(i, d, m)

\* The whole node: the receive path and send_output.
SpecSend == Init /\ [][NextSend]_vars

NextErr ==
    \/ \E kind \in EventKinds : ProduceEvent(kind)
    \/ \E a \in Adapters : ProduceUpTo(a, MaxEvents)
    \/ \E s \in Sources : Close(s)
    \/ \E a \in Adapters : MergeExternalEvents(a)
    \/ Recv

\* The receive path with a native stream that yields inputs and errors.
SpecErr == Init /\ [][NextErr]_vars

NextFair ==
    \/ \E s \in Sources : ProduceNext(s)
    \/ \E a \in Adapters : MergeExternalEvents(a)
    \/ \E s \in Sources : RecvFrom(s)
    \/ RecvNone

\* The receive path under continuous supply, with a consumer that keeps calling
\* recv and a merge that keeps polling every stream it merges.
SpecFair == Init /\ [][NextFair]_vars /\ \A s \in Sources : WF_vars(RecvFrom(s))

TypeOK ==
    /\ events.kind \in {"Dora", "Merged"}
    /\ adapter \in [Adapters -> BOOLEAN]
    /\ produced \in [Sources -> 0..MaxItems]
    /\ closed \in [Sources -> BOOLEAN]
    /\ Len(received) = Len(taken)
    /\ Len(channel) <= MaxSends

----------------------------------------------------------------------------
(* Properties *)

\* The items source s has produced so far, in the order it produced them.
ProducedBy(s) == [k \in 1..produced[s] |-> Item(s, k)]

\* The content of a received event, and the received contents that came from s.
ContentOf(py) == py.event.val
FromSource(s, py) == ContentOf(py).src = s
ReceivedFrom(s) == [i \in 1..Len(SelectSeq(received, LAMBDA py : FromSource(s, py))) |->
                      ContentOf(SelectSeq(received, LAMBDA py : FromSource(s, py))[i])]

\* The producers that feed the node: the native stream and every external
\* stream taken out of its adapter by a merge.
MergedIn == {a \in Adapters : ~adapter[a]}
Feeding == {Native} \cup MergedIn

\* C1: as long as no merge call has failed, for every source of the active
\* event source the events recv has returned from it, followed by the items of
\* it still ready, are exactly the items it produced, each once and in the order
\* it produced them; and the oldest ready item of each source is one the next
\* recv can return, so no item is left behind.
C1_MergeKeepsEveryItemInOrder ==
    ~misuse =>
        /\ \A s \in Feeding : ReceivedFrom(s) \o ready[s] = ProducedBy(s)
        /\ \A s \in Feeding : ready[s] # <<>> =>
              \E o \in RecvOutcomes(events) :
                  o.res = "item" /\ o.src = s /\ ContentOf(o.py) = Head(ready[s])
        /\ \A py \in {received[i] : i \in 1..Len(received)} :
              ContentOf(py).src \in Feeding

\* C1 witness: a source merged twice has returned two native events with an
\* external item between them, and a second adapter's item after them.
C1_Witness ==
    /\ ~misuse
    /\ MergedIn = Adapters
    /\ Len(received) = 3
    /\ ContentOf(received[1]) = Item(Native, 1)
    /\ ContentOf(received[2]).src # Native
    /\ ContentOf(received[3]) = Item(Native, 2)
    /\ ready[ContentOf(received[2]).src] = <<>>

\* C2: a merge_external_events call drops no event that was queued on the active
\* source: whatever recv could have returned before the call, it can still
\* return right after it.
C2_SwapKeepsQueuedEvents ==
    [][(\E a \in Adapters : MergeExternalEvents(a)) =>
         \A o \in RecvOutcomes(events) :
             o.res = "item" => o \in RecvOutcomes(events')]_vars

\* How often the stream of adapter a has been merged into stream s.
RECURSIVE CountExt(_, _)
CountExt(s, a) ==
    CASE s.op \in {"native", "empty"} -> 0
      [] s.op = "mergeNative" -> IF s.ext = a THEN 1 ELSE 0
      [] s.op = "merge" -> CountExt(s.inner, a) + (IF s.ext = a THEN 1 ELSE 0)
      [] s.op = "map" -> CountExt(s.inner, a)

\* C3: the stream of an adapter is merged at most once; a merge call leaves its
\* adapter consumed; it succeeds and merges the stream when the adapter still
\* held it, and fails with "stream already taken", merging nothing, when the
\* adapter was consumed before.
C3_AdapterSingleUse ==
    /\ \A a \in Adapters : CountExt(events.stream, a) <= 1
    /\ last.op = "merge" =>
          /\ ~adapter[last.ext]
          /\ last.had =>
                last.res = "ok" /\ CountExt(events.stream, last.ext) = 1
          /\ ~last.had =>
                last.res = "stream already taken" /\ CountExt(events.stream, last.ext) = 0

\* C3 witness: a second merge call with a consumed adapter has failed.
C3_Witness ==
    /\ last.op = "merge"
    /\ ~last.had
    /\ last.res = "stream already taken"

\* C4: recv has returned None on the active source only if the native stream
\* and every external stream merged in have ended with nothing left ready.
C4_NoneOnlyWhenAllExhausted ==
    nones > 0 => \A s \in Feeding : DoneSource(s)

\* C5: once recv has returned None on the active source, None is the only
\* result recv returns on it: it neither returns an event nor blocks.
C5_EndOfStreamIdempotent ==
    nones > 0 => RecvOutcomes(events) = {[res |-> "None"]}

\* C5 witness: a merged source that has returned events has returned None twice.
C5_Witness ==
    /\ nones = 2
    /\ ~misuse
    /\ events.kind = "Merged"
    /\ Len(received) >= 2

\* C6: the events recv has returned are exactly the items taken out of the
\* streams: every item produced is either returned or still ready in its
\* stream, so no recv call has taken an item it did not return.
C6_OneItemPerRecv ==
    /\ Len(received) + TotalReady = TotalProduced
    /\ \A i \in 1..Len(received) : ContentOf(received[i]) = taken[i]

\* C6 witness: two recv calls have returned items while a third item is
\* still ready behind them in one of the streams they took from.
C6_Witness ==
    /\ Len(received) = 2
    /\ ready[taken[2].src] # <<>>

\* What recv can return when the native stream is merged once with a single
\* external stream that carries the items of all the adapters in S.
BatchOutcomes(S) ==
    LET items ==
            {[res |-> "item", py |-> PyEventFromMerged(Dora(Head(ready[Native]))),
              src |-> Native] : x \in {y \in {Native} : ready[y] # <<>>}}
            \cup {[res |-> "item", py |-> PyEventFromMerged(External(Head(ready[a]))),
                   src |-> a] : a \in {b \in S : ready[b] # <<>>}}
    IN  IF items # {} THEN items
        ELSE IF \A s \in {Native} \cup S : DoneSource(s) THEN {[res |-> "None"]} ELSE {}

\* C7: every external item is returned with exactly one layer of wrapping, its
\* content being the item its stream produced; and as long as no merge call has
\* failed, what recv can return from a source built by successive merges is
\* what it could return had all the merged streams been merged in one batch.
C7_FlatUnderRepeatedMerge ==
    /\ \A i \in 1..Len(received) :
          taken[i].src # Native => received[i].event = External(taken[i])
    /\ (events.kind = "Merged" /\ ~misuse) =>
          RecvOutcomes(events) = BatchOutcomes(MergedIn)

\* C7 witness: after two merges, an item of the adapter merged first and an
\* item of the adapter merged second have been returned.
C7_Witness ==
    /\ ~misuse
    /\ MergedIn = Adapters
    /\ events.stream.op = "map"
    /\ \E i, j \in 1..Len(received) :
          /\ taken[i].src = events.stream.inner.ext
          /\ taken[j].src \in Adapters \ {events.stream.inner.ext}

\* C8: every event of the native stream is returned, and offered by the next
\* recv, tagged Dora with its content unchanged, and every item of an adapter
\* tagged External, however many merges were applied.
C8_OriginTagsPreserved ==
    /\ \A i \in 1..Len(received) :
          IF taken[i].src = Native
          THEN received[i] = PyEventFromMerged(Dora(taken[i]))
          ELSE received[i].event.tag = "External"
    /\ \A o \in RecvOutcomes(events) :
          o.res = "item" =>
              IF o.src = Native
              THEN o.py = PyEventFromMerged(Dora(Head(ready[Native])))
              ELSE o.py.event.tag = "External"

\* C8 witness: a native event has been returned after two merges, and the
\* next native event is ready.
C8_Witness ==
    /\ MergedIn = Adapters
    /\ ~misuse
    /\ ready[Native] # <<>>
    /\ \E i \in 1..Len(received) : taken[i].src = Native

\* The mapping a metadata argument stands for.
MappingOf(metadata) == IF metadata.kind = "None" THEN {} ELSE metadata.map

\* C9: a successful send_output enqueues exactly one message, which carries
\* the output identifier, the bytes and the type of the data, and the metadata.
C9_SendRoundTrip ==
    [][\A i \in OutputIds, d \in PyObjects, m \in Metadatas :
         (SendOutput(i, d, m) /\ last'.res = "ok") =>
             channel' = Append(channel,
                               [id |-> i, type |-> process_python_type(d).val,
                                metadata |-> MappingOf(m), data |-> d.bytes])]_vars

\* C9 witness: a send of four bytes with metadata has succeeded.
C9_Witness ==
    /\ last.op = "send"
    /\ last.res = "ok"
    /\ Len(channel) = 1
    /\ Len(channel[1].data) = 4
    /\ channel[1].metadata # {}

\* C10: a send_output call, successful or failed, changes nothing of the
\* receive path (the active event source, the adapters, the items ready in the
\* streams, what recv has returned), which is all that recv reads; and a failed
\* call enqueues nothing, so the channel is as it was for the next send.
C10_SendLeavesReceivePath ==
    [][\A i \in OutputIds, d \in PyObjects, m \in Metadatas :
         SendOutput(i, d, m) =>
             /\ UNCHANGED recvVars
             /\ last'.res # "ok" => channel' = channel]_vars

\* C10 witness: a send has failed while events were pending on a merged source.
C10_Witness ==
    /\ last.op = "send"
    /\ last.res # "ok"
    /\ events.kind = "Merged"
    /\ TotalReady > 0

\* C11: as long as no merge call has failed, a native event, an error as much
\* as an input, is offered by recv when it is the oldest ready one and is
\* returned as the Dora event it is, kind and content unchanged; the native
\* events are returned in the order they arrived; and recv returns None only
\* when the native stream has ended with nothing ready, not because of an error.
C11_ErrorEventsAreDelivered ==
    ~misuse =>
        /\ ready[Native] # <<>> =>
              \E o \in RecvOutcomes(events) :
                  /\ o.res = "item"
                  /\ o.src = Native
                  /\ o.py = PyEventFromMerged(Dora(Head(ready[Native])))
        /\ \A i \in 1..Len(received) :
              taken[i].src = Native =>
                  /\ received[i].event = Dora(taken[i])
                  /\ received[i].event.val.kind = taken[i].kind
        /\ LET natives == SelectSeq(taken, LAMBDA x : x.src = Native)
           IN  \A k \in 1..Len(natives) : natives[k].n = k
        /\ [res |-> "None"] \in RecvOutcomes(events) => DoneSource(Native)

\* C11 witness: after two merges recv has returned an error event and then the
\* native event that followed it.
C11_Witness ==
    /\ ~misuse
    /\ MergedIn = Adapters
    /\ Len(received) = 2
    /\ received[1].event = Dora(Event(1, "ERROR"))
    /\ received[2].event.tag = "Dora"
    /\ received[2].event.val.n = 2

EmptyEnded(a) == produced[a] = 0 /\ closed[a]

\* The adapter merged last into a merged source, and the source it was merged into.
LastMerged(ev) ==
    IF ev.stream.op = "mergeNative" THEN ev.stream.ext ELSE ev.stream.inner.ext
BeforeLastMerge(ev) ==
    IF ev.stream.op = "mergeNative" THEN EventsDora
    ELSE [kind |-> "Merged", stream |-> ev.stream.inner.inner]

\* C14: merging an adapter whose stream yields nothing and has ended changes
\* nothing for the consumer: right after the call, and for as long as the
\* source it built is the active one, recv can return exactly what it could
\* return on the source before the merge, the events and None alike.
C14_MergingEmptyAdapterIsNoOp ==
    /\ [][\A a \in Adapters :
            (adapter[a] /\ EmptyEnded(a) /\ MergeExternalEvents(a)) =>
                RecvOutcomes(events') = RecvOutcomes(events)]_vars
    /\ []((events.stream.op \in {"mergeNative", "map"} /\ EmptyEnded(LastMerged(events))) =>
             RecvOutcomes(events) = RecvOutcomes(BeforeLastMerge(events)))

\* C14 witness: an adapter with an ended, empty stream was merged into a merged
\* source last, and recv has since returned a native and an external event and
\* has more events to return.
C14_Witness ==
    /\ ~misuse
    /\ events.stream.op = "map"
    /\ EmptyEnded(LastMerged(events))
    /\ last.op = "merge"
    /\ last.ext = LastMerged(events)
    /\ \E i, j \in 1..Len(received) :
          received[i].event.tag = "Dora" /\ received[j].event.tag = "External"
    /\ TotalReady > 0

\* C15: an external stream is never held by its adapter and by the active
\* event source at once, and the active event source holds it at most once;
\* as long as no merge call has failed, it is held by exactly one of the two.
\* So recv returns external items only of streams taken out of their adapters,
\* and no external item twice, however often an adapter is passed to
\* merge_external_events.
C15_ExclusiveOwnership ==
    /\ \A a \in Adapters :
          /\ adapter[a] => CountExt(events.stream, a) = 0
          /\ CountExt(events.stream, a) <= 1
          /\ ~misuse => (adapter[a] \/ CountExt(events.stream, a) = 1)
    /\ \A i \in 1..Len(taken) :
          taken[i].src \in Adapters =>
              /\ ~adapter[taken[i].src]
              /\ \A j \in 1..Len(taken) : taken[j] = taken[i] => j = i

\* C15 witness: an adapter was passed to merge_external_events a second time,
\* after recv had returned an item of its stream, and recv has returned that
\* item once.
C15_Witness ==
    /\ last.op = "merge"
    /\ ~last.had
    /\ \E i \in 1..Len(taken) : taken[i].src = last.ext
    /\ ready[last.ext] # <<>>

\* C12: a merge_external_events call that fails with "stream already taken"
\* leaves the active event source as it was, so recv can return after the call
\* exactly what it could return before it.
C12_FailedMergeLeavesSourceUnchanged ==
    [][\A a \in Adapters :
         (MergeExternalEvents(a) /\ last'.res = "stream already taken") =>
             /\ events' = events
             /\ RecvOutcomes(events') = RecvOutcomes(events)]_vars

====
